---- MODULE Spec2Model ----
(***************************************************************************)
(* Model of parts of the batbelt library (src/batbelt).                    *)
(*                                                                         *)
(* structs.sset, the order-preserving set: a circular doubly linked list   *)
(* of [key, prev, next] nodes around a sentinel, plus a key -> node map.   *)
(* Python list objects are modelled as heap cells: the heap is a function  *)
(* from node identities (naturals) to records with the fields key, prev    *)
(* and next; identity 0 is the sentinel self.end.  Identities are only     *)
(* compared with "is", so a new node takes the least identity not in use.  *)
(* A node spliced out by discard keeps the prev/next values it had and     *)
(* lives as long as something refers to it (a suspended generator, or a    *)
(* node that does); when nothing does, reference counting frees it at the  *)
(* end of the call.                                                        *)
(*                                                                         *)
(* Further parts, each with a specification of its own over variables of   *)
(* its own: structs.remove_duplicates and strip_duplicates (SpecDup),      *)
(* parallel.worker (SpecWk), objects.Singleton (SpecSg), objects.NullObject*)
(* (SpecNull), hack.decorator_with_args (SpecDec), structs.rename          *)
(* (SpecRen) and structs.flatten (SpecFl).  SpecDel empties a sset by      *)
(* discard, pop and clear while a generator may hold removed nodes.        *)
(***************************************************************************)
EXTENDS Integers, Sequences, FiniteSets

\* ---------------------------------------------------------------- bounds
NumKeys == 3            \* keys are 1..NumKeys
MaxInit == 3            \* length of the iterable given to the constructor
MaxLenEq == 2           \* size of the ssets in the two-set specification
MaxLenRd == 2           \* size of the sset in the read-only specification
MaxStale == 0           \* removed nodes a suspended generator keeps alive

Keys == 1 .. NumKeys

\* --------------------------------------------------- constants of the code
None == 0               \* key of the sentinel node (Python None)
end == 0                \* identity of the sentinel node, self.end

\* ---------------------------------------------------------------- helpers
RECURSIVE SeqsOfLen(_)
SeqsOfLen(n) ==
    IF n = 0 THEN {<<>>}
    ELSE {Append(q, k) : q \in SeqsOfLen(n - 1), k \in Keys}

SeqsUpTo(n) == UNION {SeqsOfLen(i) : i \in 0 .. n}

Range(q) == {q[i] : i \in 1 .. Len(q)}

Reverse(q) == [i \in 1 .. Len(q) |-> q[Len(q) + 1 - i]]

Without(q, k) == SelectSeq(q, LAMBDA x : x # k)

IsInjective(q) == \A i, j \in 1 .. Len(q) : q[i] = q[j] => i = j

\* --------------------------------------------------------------- the sset
\* sset.__init__ without the iterable: the sentinel [None, end, end] and an
\* empty map.
EmptySset ==
    [heap |-> [n \in {end} |-> [key |-> None, prev |-> end, next |-> end]],
     map  |-> [k \in {} |-> end]]

\* identity of the next list object to be created: the least one not in use
NewNode(s) ==
    CHOOSE n \in 1 .. Cardinality(DOMAIN s.heap) :
        n \notin DOMAIN s.heap /\ \A m \in 1 .. (n - 1) : m \in DOMAIN s.heap

\* the cells reachable from the cells of set through prev and next
RECURSIVE Reachable(_, _)
Reachable(heap, set) ==
    LET more == set \cup {heap[n].prev : n \in set} \cup {heap[n].next : n \in set}
    IN IF more = set THEN set ELSE Reachable(heap, more)

\* End of a call: the list objects that neither self.end, self.map nor the
\* frames in held (suspended generators) lead to are freed.
Collect(s, held) ==
    LET live == Reachable(s.heap, {end} \cup {s.map[k] : k \in DOMAIN s.map} \cup held)
    IN [heap |-> [n \in live |-> s.heap[n]], map |-> s.map]

\* sset.__len__
SLen(s) == Cardinality(DOMAIN s.map)

\* sset.__contains__
SContains(s, key) == key \in DOMAIN s.map

\* sset.add without the membership test: a key already present gets a second
\* node.
SAdd_NoMembershipTest(s, key) ==
    LET curr == s.heap[end].prev
        new  == NewNode(s)
        h0 == [n \in DOMAIN s.heap \cup {new} |->
                  IF n = new THEN [key |-> key, prev |-> curr, next |-> end]
                  ELSE s.heap[n]]
        h1 == [h0 EXCEPT ![curr].next = new]
        h2 == [h1 EXCEPT ![end].prev = new]
    IN [heap |-> h2,
        map  |-> [k \in DOMAIN s.map \cup {key} |->
                     IF k = key THEN new ELSE s.map[k]]]

\* sset.add linking the new node after the sentinel instead of before it
SAdd_AtFront(s, key) ==
    IF key \notin DOMAIN s.map
    THEN LET curr == s.heap[end].next
             new  == NewNode(s)
             h0 == [n \in DOMAIN s.heap \cup {new} |->
                       IF n = new THEN [key |-> key, prev |-> end, next |-> curr]
                       ELSE s.heap[n]]
             h1 == [h0 EXCEPT ![curr].prev = new]
             h2 == [h1 EXCEPT ![end].next = new]
         IN [heap |-> h2,
             map  |-> [k \in DOMAIN s.map \cup {key} |->
                          IF k = key THEN new ELSE s.map[k]]]
    ELSE s

\* sset.add without end[PREV] = the new node
SAdd_NoBackLink(s, key) ==
    IF key \notin DOMAIN s.map
    THEN LET curr == s.heap[end].prev
             new  == NewNode(s)
             h0 == [n \in DOMAIN s.heap \cup {new} |->
                       IF n = new THEN [key |-> key, prev |-> curr, next |-> end]
                       ELSE s.heap[n]]
             h1 == [h0 EXCEPT ![curr].next = new]
         IN [heap |-> h1,
             map  |-> [k \in DOMAIN s.map \cup {key} |->
                          IF k = key THEN new ELSE s.map[k]]]
    ELSE s

\* sset.add linking the new node without recording it in self.map
SAdd_NoMapEntry(s, key) ==
    IF key \notin DOMAIN s.map
    THEN LET curr == s.heap[end].prev
             new  == NewNode(s)
             h0 == [n \in DOMAIN s.heap \cup {new} |->
                       IF n = new THEN [key |-> key, prev |-> curr, next |-> end]
                       ELSE s.heap[n]]
             h1 == [h0 EXCEPT ![curr].next = new]
             h2 == [h1 EXCEPT ![end].prev = new]
         IN [heap |-> h2, map |-> s.map]
    ELSE s

\* sset.add: curr[NEXT] = end[PREV] = self.map[key] = [key, curr, end]
SAdd(s, key) ==
    IF key \notin DOMAIN s.map
    THEN LET curr == s.heap[end].prev
             new  == NewNode(s)
             h0 == [n \in DOMAIN s.heap \cup {new} |->
                       IF n = new THEN [key |-> key, prev |-> curr, next |-> end]
                       ELSE s.heap[n]]
             h1 == [h0 EXCEPT ![curr].next = new]
             h2 == [h1 EXCEPT ![end].prev = new]
         IN [heap |-> h2,
             map  |-> [k \in DOMAIN s.map \cup {key} |->
                          IF k = key THEN new ELSE s.map[k]]]
    ELSE s

\* sset.discard unlinking the node but leaving its key in the map
SDiscard_KeepsMapEntry(s, key) ==
    IF key \in DOMAIN s.map
    THEN LET node == s.heap[s.map[key]]
             h1 == [s.heap EXCEPT ![node.prev].next = node.next]
             h2 == [h1 EXCEPT ![node.next].prev = node.prev]
         IN [s |-> [heap |-> h2, map |-> s.map], err |-> "none"]
    ELSE [s |-> s, err |-> "none"]

\* sset.discard without the membership test: self.map.pop(key) raises on a
\* key that is not present
SDiscard_NoMembershipTest(s, key) ==
    IF key \in DOMAIN s.map
    THEN LET node == s.heap[s.map[key]]
             h1 == [s.heap EXCEPT ![node.prev].next = node.next]
             h2 == [h1 EXCEPT ![node.next].prev = node.prev]
         IN [s |-> [heap |-> h2,
                    map  |-> [k \in DOMAIN s.map \ {key} |-> s.map[k]]],
             err |-> "none"]
    ELSE [s |-> s, err |-> "KeyError"]

\* sset.discard without next[PREV] = prev
SDiscard_HalfSplice(s, key) ==
    IF key \in DOMAIN s.map
    THEN LET node == s.heap[s.map[key]]
             h1 == [s.heap EXCEPT ![node.prev].next = node.next]
         IN [s |-> [heap |-> h1,
                    map  |-> [k \in DOMAIN s.map \ {key} |-> s.map[k]]],
             err |-> "none"]
    ELSE [s |-> s, err |-> "none"]

\* sset.discard: the new set and the error raised (the code raises none)
SDiscard(s, key) ==
    IF key \in DOMAIN s.map
    THEN LET node == s.heap[s.map[key]]
             h1 == [s.heap EXCEPT ![node.prev].next = node.next]
             h2 == [h1 EXCEPT ![node.next].prev = node.prev]
         IN [s |-> [heap |-> h2,
                    map  |-> [k \in DOMAIN s.map \ {key} |-> s.map[k]]],
             err |-> "none"]
    ELSE [s |-> s, err |-> "none"]

\* sset.__iter__ run to exhaustion (list(self)): the keys met walking next
\* from the sentinel until the sentinel is met again.  The walk is cut after
\* as many steps as the heap has cells, where the code would not terminate.
RECURSIVE IterFrom(_, _, _)
IterFrom(s, curr, fuel) ==
    IF curr = end \/ fuel = 0 THEN <<>>
    ELSE <<s.heap[curr].key>> \o IterFrom(s, s.heap[curr].next, fuel - 1)

SIter(s) == IterFrom(s, s.heap[end].next, Cardinality(DOMAIN s.heap))

\* sset.__reversed__ run to exhaustion (list(reversed(self)))
RECURSIVE ReversedFrom(_, _, _)
ReversedFrom(s, curr, fuel) ==
    IF curr = end \/ fuel = 0 THEN <<>>
    ELSE <<s.heap[curr].key>> \o ReversedFrom(s, s.heap[curr].prev, fuel - 1)

SReversed(s) == ReversedFrom(s, s.heap[end].prev, Cardinality(DOMAIN s.heap))

\* sset.pop taking the first key when last is true and the last one otherwise
SPop_FlagInverted(s, lastFlag) ==
    IF SLen(s) = 0
    THEN [s |-> s, ret |-> None, err |-> "KeyError"]
    ELSE LET key == IF lastFlag THEN s.heap[s.heap[end].next].key
                    ELSE s.heap[s.heap[end].prev].key
         IN [s |-> SDiscard(s, key).s, ret |-> key, err |-> "none"]

\* sset.pop without the emptiness test: next() on the exhausted generator
\* raises StopIteration
SPop_NoEmptyTest(s, lastFlag) ==
    LET node == IF lastFlag THEN s.heap[end].prev ELSE s.heap[end].next
    IN IF node = end
       THEN [s |-> s, ret |-> None, err |-> "StopIteration"]
       ELSE [s |-> SDiscard(s, s.heap[node].key).s,
             ret |-> s.heap[node].key, err |-> "none"]

\* sset.pop: the new set, the returned key and the error raised
SPop(s, lastFlag) ==
    IF SLen(s) = 0
    THEN [s |-> s, ret |-> None, err |-> "KeyError"]
    ELSE LET key == IF lastFlag THEN s.heap[s.heap[end].prev].key
                    ELSE s.heap[s.heap[end].next].key
         IN [s |-> SDiscard(s, key).s, ret |-> key, err |-> "none"]

\* sset.__init__ with an iterable: self |= iterable adds the items in order
RECURSIVE SIor(_, _)
SIor(s, items) ==
    IF items = <<>> THEN s
    ELSE SIor(SAdd(s, Head(items)), Tail(items))

SInit(iterable) == SIor(EmptySset, iterable)

\* sset.__eq__ comparing two ssets as unordered sets
SEqSset_Unordered(s, other) == Range(SIter(s)) = Range(SIter(other))

\* sset.__eq__ against another sset
SEqSset(s, other) == SLen(s) = SLen(other) /\ SIter(s) = SIter(other)

\* sset.__eq__ against a plain set
SEqSet(s, other) == Range(SIter(s)) = other


\* ------------------------------------------------------------------ state
VARIABLES
    s,        \* the sset under test: [heap, map]
    t,        \* a second sset, the right operand of ==
    last,     \* the latest call: operation, arguments, result, error
    prior,    \* operation and key of the call before it
    hist,     \* per key, the latest call that added or removed it
    added,    \* the keys present, by the time of the add that made them so
    drain,    \* the current run of successful pops with one flag
    gen,      \* the generator being consumed (__iter__ / __reversed__)
    done      \* the generator exhausted before it

VARIABLES
    lst,        \* remove_duplicates: the list object, by its content
    dup,        \* remove_duplicates: the call (argument, equals, result)
    in_queue,   \* worker: the queue of inputs
    out_queue,  \* worker: the queue of results
    proc,       \* worker: the process running main_loop
    puts,       \* worker: the values passed to put(), in call order
    gets,       \* worker: the outcomes of the get() calls, in call order
    instances,  \* Singleton._instances: class -> object
    objects,    \* the objects created by the instantiations
    made,       \* the latest instantiation: class, arguments, object returned
    nulls,      \* the NullObject instances created
    nlast,      \* the latest operation on a NullObject instance
    deco,       \* decorator_with_args: the call and the function it returns
    dct,        \* rename: the dict object, by its content
    ren,        \* rename: the call (arguments, dict before, object returned)
    fl          \* flatten: the argument and the items yielded

ssetVars == <<s, t, last, prior, hist, added, drain, gen, done>>
dupVars == <<lst, dup>>
wkVars == <<in_queue, out_queue, proc, puts, gets>>
sgVars == <<instances, objects, made>>
nullVars == <<nulls, nlast>>
decVars == <<deco>>
renVars == <<dct, ren>>
flVars == <<fl>>

\* the variables of the other parts of the library
ext == <<dupVars, wkVars, sgVars, nullVars, decVars, renVars, flVars>>

vars == <<ssetVars, ext>>

\* the parts of the library a specification does not exercise stay as they
\* are before any call
DupIdle == lst = <<>> /\ dup = <<>>
WkIdle ==
    /\ in_queue = <<>> /\ out_queue = <<>> /\ proc = <<>>
    /\ puts = <<>> /\ gets = <<>>
SgIdle == instances = <<>> /\ objects = <<>> /\ made = <<>>
NullIdle == nulls = <<>> /\ nlast = <<>>
DecIdle == deco = <<>>
RenIdle == dct = <<>> /\ ren = <<>>
FlIdle == fl = <<>>

ExtIdle ==
    /\ DupIdle /\ WkIdle /\ SgIdle /\ NullIdle /\ DecIdle /\ RenIdle /\ FlIdle

ghosts == <<prior, hist, added, drain>>

Call(op, key, flag, seq, set, ret, ok, err) ==
    [op |-> op, key |-> key, flag |-> flag, seq |-> seq, set |-> set,
     ret |-> ret, ok |-> ok, err |-> err]

Prior(call) == [op |-> call.op, key |-> call.key, err |-> call.err]

NoDrain == [start |-> <<>>, rets |-> <<>>]

\* gen.st: "none" no generator, "new" created and not started, "yielded"
\* suspended at the yield on node curr, "exhausted" after StopIteration;
\* clean says that no add, discard or pop changed the set since it was
\* created, and out is what it yielded, recorded as long as it is clean.
NoGen == [st |-> "none", rev |-> FALSE, curr |-> end, out |-> <<>>, clean |-> FALSE]

\* the items of q that occur at no earlier index, in the order of q
FirstOccurrences(q) ==
    LET keep == {i \in 1 .. Len(q) : \A j \in 1 .. (i - 1) : q[j] # q[i]}
        Rank(i) == Cardinality({j \in keep : j <= i})
    IN [r \in 1 .. Cardinality(keep) |-> q[CHOOSE i \in keep : Rank(i) = r]]

\* Construction: sset() or sset(iterable).
Init ==
    \E given \in BOOLEAN, iterable \in SeqsUpTo(MaxInit) :
        /\ given \/ iterable = <<>>
        /\ s = (IF given THEN SInit(iterable) ELSE EmptySset)
        /\ t = EmptySset
        /\ last = Call("init", None, given, iterable, {}, None, TRUE, "none")
        /\ prior = [op |-> "none", key |-> None, err |-> "none"]
        /\ hist = [k \in Keys |-> IF k \in Range(iterable) THEN "add" ELSE "none"]
        /\ added = FirstOccurrences(iterable)
        /\ drain = NoDrain
        /\ gen = NoGen
        /\ done = NoGen
        /\ ExtIdle

\* s.add(key)
Add(key) ==
    /\ s' = Collect(SAdd(s, key), {})
    /\ last' = Call("add", key, FALSE, <<>>, {}, None, TRUE, "none")
    /\ prior' = Prior(last)
    /\ hist' = [hist EXCEPT ![key] = "add"]
    /\ added' = IF SContains(s, key) THEN added ELSE Append(added, key)
    /\ drain' = NoDrain
    /\ UNCHANGED <<t, gen, done, ext>>

\* s.discard(key)
Discard(key) ==
    LET r == SDiscard(s, key)
    IN /\ s' = Collect(r.s, {})
       /\ last' = Call("discard", key, FALSE, <<>>, {}, None, TRUE, r.err)
       /\ prior' = Prior(last)
       /\ hist' = [hist EXCEPT ![key] = "remove"]
       /\ added' = Without(added, key)
       /\ drain' = NoDrain
       /\ UNCHANGED <<t, gen, done, ext>>

\* s.pop(last=lastFlag)
Pop(lastFlag) ==
    LET r == SPop(s, lastFlag)
        continues == /\ last.op = "pop"
                     /\ last.err = "none"
                     /\ last.flag = lastFlag
    IN /\ s' = Collect(r.s, {})
       /\ last' = Call("pop", r.ret, lastFlag, <<>>, {}, r.ret, TRUE, r.err)
       /\ prior' = Prior(last)
       /\ hist' = IF r.err = "none" THEN [hist EXCEPT ![r.ret] = "remove"]
                  ELSE hist
       /\ added' = IF r.err = "none" THEN Without(added, r.ret) ELSE added
       /\ drain' = IF r.err # "none" THEN NoDrain
                   ELSE IF continues
                        THEN [drain EXCEPT !.rets = Append(@, r.ret)]
                        ELSE [start |-> SIter(s), rets |-> <<r.ret>>]
       /\ UNCHANGED <<t, gen, done, ext>>

Next ==
    \/ \E key \in Keys : Add(key)
    \/ \E key \in Keys : Discard(key)
    \/ \E lastFlag \in BOOLEAN : Pop(lastFlag)

Spec == Init /\ [][Next]_vars

\* ------------------------------------------- two ssets and their equality
NoCall == Call("none", None, FALSE, <<>>, {}, None, TRUE, "none")

InitEq ==
    \E a \in SeqsUpTo(MaxLenEq), b \in SeqsUpTo(MaxLenEq) :
        /\ s = SInit(a)
        /\ t = SInit(b)
        /\ last = NoCall
        /\ prior = [op |-> "none", key |-> None, err |-> "none"]
        /\ hist = [k \in Keys |-> "none"]
        /\ added = <<>>
        /\ drain = NoDrain
        /\ gen = NoGen
        /\ done = NoGen
        /\ ExtIdle

\* s.add(key), s.discard(key), s.pop(last=lastFlag)
EqAdd(key) ==
    /\ SContains(s, key) \/ SLen(s) < MaxLenEq
    /\ s' = Collect(SAdd(s, key), {})
    /\ last' = NoCall
    /\ UNCHANGED <<t, ghosts, gen, done, ext>>

EqDiscard(key) ==
    /\ s' = Collect(SDiscard(s, key).s, {})
    /\ last' = NoCall
    /\ UNCHANGED <<t, ghosts, gen, done, ext>>

EqPop(lastFlag) ==
    /\ s' = Collect(SPop(s, lastFlag).s, {})
    /\ last' = NoCall
    /\ UNCHANGED <<t, ghosts, gen, done, ext>>

\* t.add(key), t.discard(key), t.pop(last=lastFlag)
OtherAdd(key) ==
    /\ SContains(t, key) \/ SLen(t) < MaxLenEq
    /\ t' = Collect(SAdd(t, key), {})
    /\ last' = NoCall
    /\ UNCHANGED <<s, ghosts, gen, done, ext>>

OtherDiscard(key) ==
    /\ t' = Collect(SDiscard(t, key).s, {})
    /\ last' = NoCall
    /\ UNCHANGED <<s, ghosts, gen, done, ext>>

OtherPop(lastFlag) ==
    /\ t' = Collect(SPop(t, lastFlag).s, {})
    /\ last' = NoCall
    /\ UNCHANGED <<s, ghosts, gen, done, ext>>

\* s == t
EqSsetOp ==
    /\ last' = Call("eq_sset", None, FALSE, <<>>, {}, None, SEqSset(s, t), "none")
    /\ UNCHANGED <<s, t, ghosts, gen, done, ext>>

\* s == set(t): the right operand is a plain set holding the keys of t
EqSetOp ==
    LET other == Range(SIter(t))
    IN /\ last' = Call("eq_set", None, FALSE, <<>>, other, None,
                       SEqSet(s, other), "none")
       /\ UNCHANGED <<s, t, ghosts, gen, done, ext>>

NextEq ==
    \/ \E key \in Keys : EqAdd(key)
    \/ \E key \in Keys : EqDiscard(key)
    \/ \E lastFlag \in BOOLEAN : EqPop(lastFlag)
    \/ \E key \in Keys : OtherAdd(key)
    \/ \E key \in Keys : OtherDiscard(key)
    \/ \E lastFlag \in BOOLEAN : OtherPop(lastFlag)
    \/ EqSsetOp
    \/ EqSetOp

SpecEq == InitEq /\ [][NextEq]_vars

\* ----------------------------------------- read-only calls and generators
InitRd ==
    \E a \in SeqsUpTo(MaxLenRd) :
        /\ s = SInit(a)
        /\ t = EmptySset
        /\ last = NoCall
        /\ prior = [op |-> "none", key |-> None, err |-> "none"]
        /\ hist = [k \in Keys |-> "none"]
        /\ added = <<>>
        /\ drain = NoDrain
        /\ gen = NoGen
        /\ done = NoGen
        /\ ExtIdle

\* a mutation seen by the generators: the running one is no longer clean and
\* the exhausted one is no longer comparable
Dirty(g) == [g EXCEPT !.clean = FALSE, !.out = <<>>]

\* the node a suspended generator frame refers to
Held(g) == IF g.st = "yielded" THEN {g.curr} ELSE {}

\* the removed nodes still alive
Stale(x) == DOMAIN x.heap \ ({end} \cup {x.map[k] : k \in DOMAIN x.map})

\* s.add(key), s.discard(key), s.pop(last=lastFlag)
RdAdd(key) ==
    /\ SContains(s, key) \/ SLen(s) < MaxLenRd
    /\ s' = Collect(SAdd(s, key), Held(gen))
    /\ last' = NoCall
    /\ gen' = IF s' = s THEN gen ELSE Dirty(gen)
    /\ done' = IF s' = s THEN done ELSE NoGen
    /\ UNCHANGED <<t, ghosts, ext>>

RdDiscard(key) ==
    /\ s' = Collect(SDiscard(s, key).s, Held(gen))
    /\ Cardinality(Stale(s')) <= MaxStale
    /\ last' = NoCall
    /\ gen' = IF s' = s THEN gen ELSE Dirty(gen)
    /\ done' = IF s' = s THEN done ELSE NoGen
    /\ UNCHANGED <<t, ghosts, ext>>

RdPop(lastFlag) ==
    /\ s' = Collect(SPop(s, lastFlag).s, Held(gen))
    /\ Cardinality(Stale(s')) <= MaxStale
    /\ last' = NoCall
    /\ gen' = IF s' = s THEN gen ELSE Dirty(gen)
    /\ done' = IF s' = s THEN done ELSE NoGen
    /\ UNCHANGED <<t, ghosts, ext>>

\* len(s)
LenOp ==
    /\ last' = Call("len", None, FALSE, <<>>, {}, SLen(s), TRUE, "none")
    /\ UNCHANGED <<s, t, ghosts, gen, done, ext>>

\* key in s
ContainsOp(key) ==
    /\ last' = Call("contains", key, FALSE, <<>>, {}, None, SContains(s, key), "none")
    /\ UNCHANGED <<s, t, ghosts, gen, done, ext>>

\* s == other, other a plain set
RdEqSetOp(other) ==
    /\ last' = Call("eq_set", None, FALSE, <<>>, {}, None, SEqSet(s, other), "none")
    /\ UNCHANGED <<s, t, ghosts, gen, done, ext>>

\* iter(s) (rev false) or reversed(s) (rev true): a new generator, whose body
\* has not started; an exhausted generator becomes the previous one.
IterOp(rev) ==
    /\ gen' = [st |-> "new", rev |-> rev, curr |-> end, out |-> <<>>, clean |-> TRUE]
    /\ done' = IF gen.st = "exhausted" /\ gen.clean THEN gen ELSE NoGen
    /\ last' = Call("iter", None, rev, <<>>, {}, None, TRUE, "none")
    /\ s' = Collect(s, {})
    /\ UNCHANGED <<t, ghosts, ext>>

\* sset.__iter__ starting at end[PREV] instead of end[NEXT]
GenAdvance_StartsAtPrev(x, g) ==
    IF g.st = "new"
    THEN x.heap[end].prev
    ELSE (IF g.rev THEN x.heap[g.curr].prev ELSE x.heap[g.curr].next)

\* sset.__iter__ / sset.__reversed__ resumed by next(): the node the
\* generator moves to
GenAdvance(x, g) ==
    IF g.st = "new"
    THEN (IF g.rev THEN x.heap[end].prev ELSE x.heap[end].next)
    ELSE (IF g.rev THEN x.heap[g.curr].prev ELSE x.heap[g.curr].next)

\* next(gen): yields the key of the node reached, or raises StopIteration at
\* the sentinel and ever after
NextOp ==
    /\ gen.st # "none"
    /\ IF gen.st = "exhausted"
       THEN /\ gen' = gen
            /\ last' = Call("next", None, gen.rev, <<>>, {}, None, TRUE, "StopIteration")
       ELSE LET curr == GenAdvance(s, gen)
            IN IF curr = end
               THEN /\ gen' = [gen EXCEPT !.st = "exhausted", !.curr = end]
                    /\ last' = Call("next", None, gen.rev, <<>>, {}, None, TRUE,
                                    "StopIteration")
               ELSE /\ gen' = [gen EXCEPT !.st = "yielded", !.curr = curr,
                                          !.out = IF gen.clean
                                                  THEN Append(@, s.heap[curr].key)
                                                  ELSE @]
                    /\ last' = Call("next", s.heap[curr].key, gen.rev, <<>>, {},
                                    s.heap[curr].key, TRUE, "none")
    /\ s' = Collect(s, Held(gen'))
    /\ UNCHANGED <<t, ghosts, done, ext>>

NextRd ==
    \/ \E key \in Keys : RdAdd(key)
    \/ \E key \in Keys : RdDiscard(key)
    \/ \E lastFlag \in BOOLEAN : RdPop(lastFlag)
    \/ LenOp
    \/ \E key \in Keys : ContainsOp(key)
    \/ \E n \in 0 .. NumKeys : RdEqSetOp(1 .. n)
    \/ \E rev \in BOOLEAN : IterOp(rev)
    \/ NextOp

SpecRd == InitRd /\ [][NextRd]_vars

\* ----------------------------------------------------------- observations
Members(x) == {k \in Keys : SContains(x, k)}

Observed(x) == <<SLen(x), Members(x), SIter(x), SReversed(x)>>

\* ------------------------------------------------------------------ claims

\* C1: sset(S) has as many elements as S has distinct items and iterates
\* them once each in the order of their first occurrence in S; sset() is
\* empty.
C1_ConstructorKeepsFirstOccurrences ==
    last.op = "init" =>
        /\ SLen(s) = Cardinality(Range(last.seq))
        /\ IsInjective(SIter(s))
        /\ Range(SIter(s)) = Range(last.seq)
        /\ SIter(s) = FirstOccurrences(last.seq)
        /\ ~last.flag => (SLen(s) = 0 /\ SIter(s) = <<>>)

C1_Witness ==
    /\ last.op = "init"
    /\ last.flag
    /\ Len(last.seq) = 3
    /\ last.seq[1] = last.seq[3]
    /\ last.seq[1] > last.seq[2]
    /\ SLen(s) = 2

\* C2: after any add, discard and pop calls, forward iteration yields the
\* keys present, once each, ordered by the add that made each one present;
\* discard removes its key from the order and keeps the rest, and add(x)
\* right after discard(x) puts x last and keeps the order of the others.
C2_Order ==
    /\ IsInjective(SIter(s))
    /\ Range(SIter(s)) = DOMAIN s.map
    /\ SIter(s) = added

C2_DiscardStep ==
    last'.op = "discard" => SIter(s') = Without(SIter(s), last'.key)

C2_ReAddStep ==
    (last.op = "discard" /\ last'.op = "add" /\ last'.key = last.key)
        => SIter(s') = Append(Without(SIter(s), last'.key), last'.key)

C2_IterationFollowsInsertion ==
    /\ []C2_Order
    /\ [][C2_DiscardStep]_vars
    /\ [][C2_ReAddStep]_vars

C2_Witness ==
    /\ last.op = "add"
    /\ last.key = 2
    /\ prior.op = "discard"
    /\ prior.key = 2
    /\ SIter(s) = <<1, 3, 2>>

\* C3: a key is contained iff the latest call that added or removed it was
\* an add; len() counts the contained keys; add(k) and discard(k) leave the
\* membership of every other key as it was.
C3_Membership ==
    /\ \A k \in Keys : SContains(s, k) <=> hist[k] = "add"
    /\ SLen(s) = Cardinality(Members(s))

C3_OtherKeysStep ==
    last'.op \in {"add", "discard"} =>
        \A k \in Keys \ {last'.key} : SContains(s', k) <=> SContains(s, k)

C3_MembershipFollowsLastCall ==
    /\ []C3_Membership
    /\ [][C3_OtherKeysStep]_vars

C3_Witness ==
    /\ last.op = "pop"
    /\ last.err = "none"
    /\ prior.op = "discard"
    /\ hist[last.ret] = "remove"
    /\ hist[prior.key] = "remove"
    /\ prior.key # last.ret
    /\ \E k \in Keys : hist[k] = "add"
    /\ SLen(s) = 1

\* C4: add(x) after add(x) leaves length, membership and order as the first
\* add left them, and add(x) of a key already present changes neither the
\* length nor the order.
C4_RepeatedAddStep ==
    (last.op = "add" /\ last'.op = "add" /\ last'.key = last.key)
        => Observed(s') = Observed(s)

C4_PresentAddStep ==
    (last'.op = "add" /\ SContains(s, last'.key))
        => (SLen(s') = SLen(s) /\ SIter(s') = SIter(s))

C4_AddIdempotent ==
    /\ [][C4_RepeatedAddStep]_vars
    /\ [][C4_PresentAddStep]_vars

C4_Witness ==
    /\ last.op = "add"
    /\ prior.op = "add"
    /\ prior.key = last.key
    /\ SLen(s) = 3
    /\ SIter(s)[1] = last.key

\* C5: discard(x) of a key that is not present raises nothing and leaves
\* length, membership and both iteration orders as they were.
C5_AbsentDiscardStep ==
    (last'.op = "discard" /\ ~SContains(s, last'.key))
        => (last'.err = "none" /\ Observed(s') = Observed(s))

C5_DiscardAbsentIsNoOp == [][C5_AbsentDiscardStep]_vars

C5_Witness ==
    /\ last.op = "discard"
    /\ last.err = "none"
    /\ prior.op = "discard"
    /\ prior.key = last.key
    /\ ~SContains(s, last.key)
    /\ SLen(s) = 2

\* C6: from the order k1..kn, successive pop(last=True) calls return kn..k1
\* and successive pop(last=False) calls return k1..kn; each pop removes the
\* key it returns and keeps the order of the rest, and the set is empty after
\* the n-th pop.
C6_PopDrainsInOrder ==
    (last.op = "pop" /\ last.err = "none") =>
        LET n == Len(drain.rets)
            m == Len(drain.start)
        IN /\ n <= m
           /\ drain.rets = SubSeq(IF last.flag THEN Reverse(drain.start)
                                  ELSE drain.start, 1, n)
           /\ SIter(s) = (IF last.flag THEN SubSeq(drain.start, 1, m - n)
                          ELSE SubSeq(drain.start, n + 1, m))
           /\ Members(s) = Range(drain.start) \ Range(drain.rets)
           /\ n = m => (SLen(s) = 0 /\ SIter(s) = <<>>)

C6_Witness ==
    /\ last.op = "pop"
    /\ last.err = "none"
    /\ last.flag
    /\ Len(drain.start) = 3
    /\ Len(drain.rets) = 3
    /\ drain.start[1] > drain.start[2]
    /\ SLen(s) = 0

\* C7: pop raises KeyError iff the set has no element, whatever the flag;
\* after it raised the set is empty and well formed, and an add then works.
C7_PopStep ==
    last'.op = "pop" =>
        /\ last'.err \in {"none", "KeyError"}
        /\ last'.err = "KeyError" <=> SLen(s) = 0

C7_AfterError ==
    (last.op = "pop" /\ last.err = "KeyError") =>
        /\ SLen(s) = 0
        /\ SIter(s) = <<>>
        /\ SReversed(s) = <<>>
        /\ s.heap[end] = [key |-> None, prev |-> end, next |-> end]

C7_AddAfterErrorStep ==
    (last.op = "pop" /\ last.err = "KeyError" /\ last'.op = "add") =>
        /\ SLen(s') = 1
        /\ SContains(s', last'.key)
        /\ SIter(s') = <<last'.key>>
        /\ SReversed(s') = <<last'.key>>

C7_PopRaisesIffEmpty ==
    /\ [][C7_PopStep]_vars
    /\ []C7_AfterError
    /\ [][C7_AddAfterErrorStep]_vars

C7_Witness ==
    /\ last.op = "add"
    /\ prior.op = "pop"
    /\ prior.err = "KeyError"
    /\ SLen(s) = 1

\* C8: in every state reached by add, discard and pop, reverse iteration
\* yields the forward iteration sequence reversed.
C8_ReversedIsIterReversed == SReversed(s) = Reverse(SIter(s))

C8_Witness ==
    /\ last.op = "discard"
    /\ SLen(s) = 2
    /\ SIter(s)[1] > SIter(s)[2]

\* C9: for two ssets, == holds iff their forward iteration sequences are
\* the same, whatever calls built them; against a plain set, == holds iff
\* both hold the same elements, whatever the order of the sset.
C9_EqualityByOrderOrBySet ==
    /\ last.op = "eq_sset" => (last.ok <=> SIter(s) = SIter(t))
    /\ last.op = "eq_set" =>
           /\ last.set = Members(t)
           /\ last.ok <=> Members(s) = Members(t)

C9_Witness ==
    /\ last.op = "eq_sset"
    /\ last.ok
    /\ SLen(s) = 2
    /\ SIter(s)[1] > SIter(s)[2]
    /\ s.heap # t.heap

\* C10: len, contains, ==, creating a generator and resuming it leave the
\* set as it was; a generator run to exhaustion with no mutation since its
\* creation yields the current order (reversed for reversed()), so two such
\* runs in a row yield the same sequence, and its first item is the first of
\* the current order.
C10_ReadStep ==
    last'.op \in {"len", "contains", "eq_set", "iter", "next"} =>
        /\ Observed(s') = Observed(s)
        /\ Collect(s', {}) = Collect(s, {})

C10_Generator ==
    LET order == IF gen.rev THEN SReversed(s) ELSE SIter(s)
    IN /\ (gen.st = "exhausted" /\ gen.clean) => gen.out = order
       /\ (gen.st = "yielded" /\ gen.clean) =>
              gen.out = SubSeq(order, 1, Len(gen.out))
       /\ (/\ gen.st = "exhausted" /\ gen.clean
           /\ done.st = "exhausted" /\ done.clean
           /\ done.rev = gen.rev) => gen.out = done.out

C10_ReadsLeaveSetUnchanged ==
    /\ [][C10_ReadStep]_vars
    /\ []C10_Generator

C10_Witness ==
    /\ last.op = "next"
    /\ last.err = "StopIteration"
    /\ gen.st = "exhausted" /\ gen.clean
    /\ done.st = "exhausted" /\ done.clean
    /\ done.rev = gen.rev
    /\ Len(gen.out) = 2
    /\ gen.out[1] > gen.out[2]

\* ------------------------------------------ the parts and their variables
SsetIdle ==
    /\ s = EmptySset
    /\ t = EmptySset
    /\ last = NoCall
    /\ prior = [op |-> "none", key |-> None, err |-> "none"]
    /\ hist = [k \in Keys |-> "none"]
    /\ added = <<>>
    /\ drain = NoDrain
    /\ gen = NoGen
    /\ done = NoGen

\* every part but the one named g is idle
Idle(g) ==
    /\ SsetIdle
    /\ IF g = "dup" THEN TRUE ELSE DupIdle
    /\ IF g = "wk" THEN TRUE ELSE WkIdle
    /\ IF g = "sg" THEN TRUE ELSE SgIdle
    /\ IF g = "null" THEN TRUE ELSE NullIdle
    /\ IF g = "dec" THEN TRUE ELSE DecIdle
    /\ IF g = "ren" THEN TRUE ELSE RenIdle
    /\ IF g = "fl" THEN TRUE ELSE FlIdle

\* every part but the one named g stays as it is
Frame(g) ==
    /\ UNCHANGED ssetVars
    /\ IF g = "dup" THEN TRUE ELSE UNCHANGED dupVars
    /\ IF g = "wk" THEN TRUE ELSE UNCHANGED wkVars
    /\ IF g = "sg" THEN TRUE ELSE UNCHANGED sgVars
    /\ IF g = "null" THEN TRUE ELSE UNCHANGED nullVars
    /\ IF g = "dec" THEN TRUE ELSE UNCHANGED decVars
    /\ IF g = "ren" THEN TRUE ELSE UNCHANGED renVars
    /\ IF g = "fl" THEN TRUE ELSE UNCHANGED flVars

\* ------------------------------------ strip_duplicates, remove_duplicates
MaxLst == 4             \* length of the list given to remove_duplicates

\* the equals argument: the default lambda x, y: x == y, and a coarser
\* equivalence, lambda x, y: x % 2 == y % 2
EqualsKinds == {"eq", "mod2"}

Equals(equals, x, y) ==
    IF equals = "eq" THEN x = y ELSE x % 2 = y % 2

\* strip_duplicates: take the next element, append it to res, and keep of
\* the rest what is not equal to it
RECURSIVE strip_duplicates(_, _)
strip_duplicates(iterable, equals) ==
    IF iterable = <<>> THEN <<>>
    ELSE LET elem == Head(iterable)
             rest == SelectSeq(Tail(iterable), LAMBDA x : ~Equals(equals, elem, x))
         IN <<elem>> \o strip_duplicates(rest, equals)

\* del lst[i], i counted from 0
Del(q, i) == SubSeq(q, 1, i) \o SubSeq(q, i + 2, Len(q))

\* remove_duplicates, the inner loop: while i2 <= l, delete lst[i2] when it
\* equals elem and decrement l, and increment i2 in both cases
RECURSIVE InnerLoop(_, _, _, _, _)
InnerLoop(q, equals, elem, i2, l) ==
    IF i2 <= l
    THEN IF Equals(equals, elem, q[i2 + 1])
         THEN InnerLoop(Del(q, i2), equals, elem, i2 + 1, l - 1)
         ELSE InnerLoop(q, equals, elem, i2 + 1, l)
    ELSE [lst |-> q, l |-> l]

\* remove_duplicates, the outer loop: while i1 < l
RECURSIVE OuterLoop(_, _, _, _)
OuterLoop(q, equals, i1, l) ==
    IF i1 < l
    THEN LET r == InnerLoop(q, equals, q[i1 + 1], i1 + 1, l)
         IN OuterLoop(r.lst, equals, i1 + 1, r.l)
    ELSE q

\* remove_duplicates(lst, equals): the content of lst when it returns
remove_duplicates(q, equals) == OuterLoop(q, equals, 0, Len(q) - 1)

\* a list and an equals function
InitDup ==
    \E q \in SeqsUpTo(MaxLst), equals \in EqualsKinds :
        /\ lst = q
        /\ dup = [orig |-> q, equals |-> equals, removed |-> FALSE,
                  ret |-> "none", stripped |-> FALSE, res |-> <<>>]
        /\ Idle("dup")

\* remove_duplicates(lst, equals): works on lst itself and returns it
RemoveDuplicates ==
    /\ ~dup.removed
    /\ lst' = remove_duplicates(lst, dup.equals)
    /\ dup' = [dup EXCEPT !.removed = TRUE, !.ret = "lst"]
    /\ Frame("dup")

\* res = strip_duplicates(a copy of the original list, equals)
StripDuplicates ==
    /\ ~dup.stripped
    /\ dup' = [dup EXCEPT !.stripped = TRUE,
                          !.res = strip_duplicates(dup.orig, dup.equals)]
    /\ UNCHANGED lst
    /\ Frame("dup")

NextDup ==
    \/ RemoveDuplicates
    \/ StripDuplicates

SpecDup == InitDup /\ [][NextDup]_vars

\* C11: after remove_duplicates(lst, equals) the same list object holds no
\* two elements equal under equals, and holds the first occurrence of each
\* distinct element of the original list in the original order, which is
\* what strip_duplicates returns for the same input.
C11_RemoveDuplicatesLeavesFirstOccurrences ==
    dup.removed =>
        /\ dup.ret = "lst"
        /\ \A i, j \in 1 .. Len(lst) :
               Equals(dup.equals, lst[i], lst[j]) => i = j
        /\ lst = strip_duplicates(dup.orig, dup.equals)
        /\ dup.stripped => lst = dup.res

\* ------------------------------------------------------- parallel.worker
MaxPuts == 3            \* calls of put() in a run
NumVals == 2            \* inputs on which the function returns: 1..NumVals
MaxStops == 1           \* calls of stop() in a run

\* What the worker's function does with an input, by the except clause of
\* main_loop that meets it: it returns ("none"), or raises an exception of
\* the clause (Error, Empty), of the clause (StopWorker, KeyboardInterrupt),
\* or any other Exception.
Raised == {"Empty", "KeyboardInterrupt", "Exception"}

\* the values passed to put(): the function returns on [v, "none"] and
\* raises on the others
Inputs ==
    {[v |-> v, raises |-> "none"] : v \in 1 .. NumVals}
        \cup {[v |-> 0, raises |-> e] : e \in Raised}

\* the value func returns for x
Func(x) == 10 * x.v

\* a StopWorker() instance on the input queue
StopMsg == [v |-> 0, raises |-> "StopWorker"]

\* Queue.put putting the item at the head of the queue
QPut_AtHead(q, x) == <<x>> \o q

\* Queue.put: the queues are first in first out
QPut(q, x) == Append(q, x)

\* an item of the output queue: a returned value, or an exception instance
Returned(v) == [exc |-> "none", v |-> v]
Exc(e) == [exc |-> e, v |-> 0]

\* worker(): decorator(func) creates the two queues and the process object
InitWk ==
    /\ in_queue = <<>>
    /\ out_queue = <<>>
    /\ proc = [st |-> "new", res |-> StopMsg, stops |-> 0, broke |-> "no"]
    /\ puts = <<>>
    /\ gets = <<>>
    /\ Idle("wk")

\* wrapper.start(): manager.start() runs main_loop in the new process
Start ==
    /\ proc.st = "new"
    /\ proc' = [proc EXCEPT !.st = "waiting"]
    /\ UNCHANGED <<in_queue, out_queue, puts, gets>>
    /\ Frame("wk")

\* manager.put(x)
Put(x) ==
    /\ Len(puts) < MaxPuts
    /\ in_queue' = QPut(in_queue, x)
    /\ puts' = Append(puts, x)
    /\ UNCHANGED <<out_queue, proc, gets>>
    /\ Frame("wk")

\* manager.stop()
Stop ==
    /\ proc.stops < MaxStops
    /\ in_queue' = QPut(in_queue, StopMsg)
    /\ proc' = [proc EXCEPT !.stops = @ + 1]
    /\ UNCHANGED <<out_queue, puts, gets>>
    /\ Frame("wk")

\* main_loop: res = in_queue.get(block, timeout).  On an empty queue it
\* raises Empty, which the loop passes over; a StopWorker instance breaks
\* the loop.
WorkerGet ==
    /\ proc.st = "waiting"
    /\ IF in_queue = <<>>
       THEN UNCHANGED <<in_queue, proc>>
       ELSE /\ in_queue' = Tail(in_queue)
            /\ proc' = IF Head(in_queue) = StopMsg
                       THEN [proc EXCEPT !.st = "stopped", !.broke = "StopWorker"]
                       ELSE [proc EXCEPT !.st = "holding", !.res = Head(in_queue)]
    /\ UNCHANGED <<out_queue, puts, gets>>
    /\ Frame("wk")

\* main_loop: out_queue.put(func(res)) and the except clauses
WorkerCall ==
    /\ proc.st = "holding"
    /\ LET raises == proc.res.raises
       IN /\ out_queue' =
                 IF raises = "none" THEN QPut(out_queue, Returned(Func(proc.res)))
                 ELSE IF raises = "Exception" THEN QPut(out_queue, Exc(raises))
                 ELSE out_queue
          /\ proc' = IF raises = "KeyboardInterrupt"
                     THEN [proc EXCEPT !.st = "stopped", !.res = StopMsg,
                                       !.broke = raises]
                     ELSE [proc EXCEPT !.st = "waiting", !.res = StopMsg]
    /\ UNCHANGED <<in_queue, puts, gets>>
    /\ Frame("wk")

\* manager.get(): res = out_queue.get(block, timeout), which raises Empty on
\* an empty queue; an Exception instance is raised, anything else returned
Get ==
    /\ IF out_queue = <<>>
       THEN UNCHANGED <<out_queue, gets>>
       ELSE /\ out_queue' = Tail(out_queue)
            /\ gets' = Append(gets, Head(out_queue))
    /\ UNCHANGED <<in_queue, proc, puts>>
    /\ Frame("wk")

NextWk ==
    \/ Start
    \/ \E x \in Inputs : Put(x)
    \/ Stop
    \/ WorkerGet
    \/ WorkerCall
    \/ Get

SpecWk == InitWk /\ [][NextWk]_vars

\* what the caller is to obtain for the input x
Outcome(x) == IF x.raises = "none" THEN Returned(Func(x)) ELSE Exc(x.raises)

MapSeq(Op(_), q) == [i \in 1 .. Len(q) |-> Op(q[i])]

\* the inputs not yet handled: the one the loop holds, then the queued ones
Pending ==
    (IF proc.st = "holding" THEN <<proc.res>> ELSE <<>>)
        \o SelectSeq(in_queue, LAMBDA m : m # StopMsg)

\* the function raised on none of the inputs put so far
NoneRaised == \A i \in 1 .. Len(puts) : puts[i].raises = "none"

\* C12: for a worker whose function raises no exception, the k-th result
\* obtained with get() is func of the k-th value passed to put(): at any
\* time the results obtained, then those waiting on the output queue, then
\* the inputs not yet handled are the inputs in put order, one each.
C12_ResultsInInputOrder ==
    NoneRaised =>
        /\ \A k \in 1 .. Len(gets) : gets[k] = Returned(Func(puts[k]))
        /\ gets \o out_queue \o MapSeq(Outcome, Pending) = MapSeq(Outcome, puts)

C12_Witness ==
    /\ NoneRaised
    /\ Len(gets) = 3
    /\ puts[1] # puts[2]
    /\ puts[2] # puts[3]
    /\ proc.st = "waiting"

\* C13: an exception the function raises on an input is put on the output
\* queue in that input's position and get() re-raises it there, and the loop
\* keeps running: it ends only on a StopWorker message.
C13_ExceptionTakesItsPosition ==
    /\ gets \o out_queue \o MapSeq(Outcome, Pending) = MapSeq(Outcome, puts)
    /\ proc.st = "stopped" => proc.broke = "StopWorker"

\* ------------------------------------------------------ objects.Singleton
NumClasses == 3         \* classes whose metaclass is Singleton: 1..NumClasses
NumArgs == 2            \* argument lists an instantiation is called with

Classes == 1 .. NumClasses
Args == 1 .. NumArgs

\* identity of the next object created: the least one not in use
NewObject(objs) ==
    CHOOSE n \in 1 .. (Cardinality(DOMAIN objs) + 1) :
        n \notin DOMAIN objs /\ \A m \in 1 .. (n - 1) : m \in DOMAIN objs

\* type.__call__(cls, *args, **kwargs): a new object of class cls, on which
\* the constructor runs with the arguments
TypeCall(objs, cls, args) ==
    LET new == NewObject(objs)
    IN [objs |-> [o \in DOMAIN objs \cup {new} |->
                     IF o = new THEN [cls |-> cls, args |-> args] ELSE objs[o]],
        ret  |-> new]

\* Singleton.__call__ without the test "cls not in cls._instances"
SingletonCall_NoTest(inst, objs, cls, args) ==
    LET r == TypeCall(objs, cls, args)
    IN [instances |-> [c \in DOMAIN inst \cup {cls} |->
                          IF c = cls THEN r.ret ELSE inst[c]],
        objects |-> r.objs,
        ret |-> r.ret]

\* Singleton.__call__(cls, *args, **kwargs)
SingletonCall(inst, objs, cls, args) ==
    IF cls \notin DOMAIN inst
    THEN LET r == TypeCall(objs, cls, args)
         IN [instances |-> [c \in DOMAIN inst \cup {cls} |->
                               IF c = cls THEN r.ret ELSE inst[c]],
             objects |-> r.objs,
             ret |-> r.ret]
    ELSE [instances |-> inst, objects |-> objs, ret |-> inst[cls]]

\* Singleton._instances = {} and no instantiation yet
InitSg ==
    /\ instances = [c \in {} |-> 0]
    /\ objects = [o \in {} |-> 0]
    /\ made = [cls |-> 0, args |-> 0, ret |-> 0, again |-> FALSE,
               returned |-> [c \in Classes |-> {}],
               first |-> [c \in Classes |-> 0]]
    /\ Idle("sg")

\* cls(*args): an instantiation of a class whose metaclass is Singleton
Instantiate(cls, args) ==
    LET r == SingletonCall(instances, objects, cls, args)
    IN /\ instances' = r.instances
       /\ objects' = r.objects
       /\ made' = [cls |-> cls, args |-> args, ret |-> r.ret,
                   again |-> made.returned[cls] # {},
                   returned |-> [made.returned EXCEPT ![cls] = @ \cup {r.ret}],
                   first |-> IF made.returned[cls] = {}
                             THEN [made.first EXCEPT ![cls] = args]
                             ELSE made.first]
       /\ Frame("sg")

NextSg == \E cls \in Classes, args \in Args : Instantiate(cls, args)

SpecSg == InitSg /\ [][NextSg]_vars

\* the objects of class c on which the constructor has run
Constructed(c) == {o \in DOMAIN objects : objects[o].cls = c}

\* C14: after any sequence of instantiations with any arguments, every
\* instantiation of a class returned the same object, the constructor of the
\* class has run once, on the first call, and two distinct classes have two
\* distinct instances.
C14_OneInstancePerClass ==
    /\ \A c \in Classes :
           /\ Cardinality(made.returned[c]) <= 1
           /\ Cardinality(Constructed(c)) = Cardinality(made.returned[c])
           /\ \A o \in Constructed(c) :
                  /\ made.returned[c] = {o}
                  /\ objects[o].args = made.first[c]
    /\ \A c1, c2 \in Classes :
           (made.returned[c1] # {} /\ made.returned[c1] = made.returned[c2])
               => c1 = c2

C14_Witness ==
    /\ made.again
    /\ made.args # made.first[made.cls]
    /\ \E c \in Classes : c # made.cls /\ made.returned[c] # {}
    /\ made.ret \in made.returned[made.cls]

\* ------------------------------------------------------ objects.NullObject
MaxNulls == 2           \* NullObject instances the caller holds

\* attribute names: some the class NullObject defines (a method and a plain
\* class attribute), some its base class object defines, and some that
\* neither defines
ClassNames == {"nullify", "__doc__"}
ObjectNames == {"__class__", "__reduce__"}
FreeNames == {"attr1", "method1"}
Names == ClassNames \cup ObjectNames \cup FreeNames

\* the operations whose special method is nullify (objects.py 184-201):
\* call, item and slice access, ordering, unary, binary, reflected and
\* in-place arithmetic and bitwise operations
NullifyOps ==
    {"__call__", "__getitem__", "__getslice__", "__lt__", "__ge__",
     "__neg__", "__add__", "__radd__", "__iadd__", "__and__", "__rshift__"}

\* the statements whose special method is nullify and whose result is
\* dropped: n[k] = v, del n[k]
NullifyStmts == {"__setitem__", "__delitem__"}

\* values: a NullObject instance, a bound method of one, a string, the
\* class NullObject, a built-in method of object bound to an instance, a
\* plain value, a boolean
Ref(o) == [kind |-> "NullObject", id |-> o]
Method(o) == [kind |-> "method", id |-> o]
DocString == [kind |-> "str", id |-> 0]
ClassObject == [kind |-> "type", id |-> 0]
Builtin(o) == [kind |-> "builtin method", id |-> o]
Plain == [kind |-> "value", id |-> 1]
Bool(b) == [kind |-> "bool", id |-> IF b THEN 1 ELSE 0]
NoValue == [kind |-> "none", id |-> 0]

\* nullify = lambda self, *x, **kwargs: self
nullify(o) == Ref(o)

\* object.__new__ and NullObject.__init__: a new instance with an empty
\* __dict__; the arguments are ignored
NullNew(objs) ==
    LET new == NewObject(objs)
    IN [objs |-> [o \in DOMAIN objs \cup {new} |->
                     IF o = new THEN [dict |-> [a \in {} |-> NoValue]]
                     ELSE objs[o]],
        ret |-> new]

\* the names the type defines as data descriptors: __class__ is a getset
\* descriptor of object
DataDescriptors == {"__class__"}

\* n.name: object.__getattribute__ takes a data descriptor of the type
\* first, then the instance __dict__, then the other attributes of the
\* class NullObject and of its base class object; __getattr__, which is
\* nullify, is called only when all of these fail
NullGetAttr(objs, o, name) ==
    IF name \in DataDescriptors THEN ClassObject
    ELSE IF name \in DOMAIN objs[o].dict THEN objs[o].dict[name]
    ELSE IF name = "nullify" THEN Method(o)
    ELSE IF name = "__doc__" THEN DocString
    ELSE IF name = "__reduce__" THEN Builtin(o)
    ELSE nullify(o)

\* n.name = value: __setattr__ is nullify
NullSetAttr(objs, o, name, value) == objs

\* del n.name: __delattr__ is nullify
NullDelAttr(objs, o, name) == objs

\* NullObject.__eq__(self, other), other a NullObject instance
NullEq(o, other) == TRUE

NoOp == [op |-> "none", obj |-> 0, name |-> "none"]

InitNull ==
    /\ nulls = [o \in {} |-> 0]
    /\ nlast = [op |-> "none", obj |-> 0, name |-> "none", ret |-> NoValue,
                prev |-> NoOp]
    /\ Idle("null")

NullCall(op, o, name, ret) ==
    [op |-> op, obj |-> o, name |-> name, ret |-> ret,
     prev |-> [op |-> nlast.op, obj |-> nlast.obj, name |-> nlast.name]]

\* n = NullObject(*args, **kwargs)
New(args) ==
    /\ Cardinality(DOMAIN nulls) < MaxNulls
    /\ LET r == NullNew(nulls)
       IN /\ nulls' = r.objs
          /\ nlast' = NullCall("new", r.ret, "none", Ref(r.ret))
    /\ Frame("null")

\* n.name
GetAttr(o, name) ==
    /\ nlast' = NullCall("getattr", o, name, NullGetAttr(nulls, o, name))
    /\ UNCHANGED nulls
    /\ Frame("null")

\* n.name = value
SetAttr(o, name) ==
    /\ nulls' = NullSetAttr(nulls, o, name, Plain)
    /\ nlast' = NullCall("setattr", o, name, NoValue)
    /\ Frame("null")

\* del n.name
DelAttr(o, name) ==
    /\ nulls' = NullDelAttr(nulls, o, name)
    /\ nlast' = NullCall("delattr", o, name, NoValue)
    /\ Frame("null")

\* n(...), n[k], n[i:j], n < x, -n, n + x, x + n, n += x, n & x, n >> x
Operate(o, op) ==
    /\ nlast' = NullCall(op, o, "none", nullify(o))
    /\ UNCHANGED nulls
    /\ Frame("null")

\* n[k] = v, del n[k]
Statement(o, op) ==
    /\ nlast' = NullCall(op, o, "none", NoValue)
    /\ UNCHANGED nulls
    /\ Frame("null")

\* n == m, m another instance
EqOp(o, other) ==
    /\ nlast' = NullCall("__eq__", o, "none", Bool(NullEq(o, other)))
    /\ UNCHANGED nulls
    /\ Frame("null")

NextNull ==
    \/ \E args \in Args : New(args)
    \/ \E o \in DOMAIN nulls, name \in Names : GetAttr(o, name)
    \/ \E o \in DOMAIN nulls, name \in Names : SetAttr(o, name)
    \/ \E o \in DOMAIN nulls, name \in Names : DelAttr(o, name)
    \/ \E o \in DOMAIN nulls, op \in NullifyOps : Operate(o, op)
    \/ \E o \in DOMAIN nulls, op \in NullifyStmts : Statement(o, op)
    \/ \E o \in DOMAIN nulls, other \in DOMAIN nulls : EqOp(o, other)

SpecNull == InitNull /\ [][NextNull]_vars

\* C15: NullObject is a singleton: every call NullObject(...), whatever its
\* arguments, returns the same object, identical and not merely equal.
C15_NullObjectIsSingleton ==
    \A o1, o2 \in DOMAIN nulls : o1 = o2

\* C16: any attribute lookup, call, item or slice access and arithmetic,
\* bitwise or ordering operation on n returns n itself, and setting or
\* deleting an attribute or item has no effect: a later lookup of it still
\* returns n.
C16_EveryLookupReturnsSelf ==
    /\ nlast.op \in NullifyOps \cup {"getattr"} => nlast.ret = Ref(nlast.obj)
    /\ \A o \in DOMAIN nulls : DOMAIN nulls[o].dict = {}

\* a lookup, on the second instance and after an assignment to the same
\* name, of a name that object defines
C16_Witness ==
    /\ nlast.op = "getattr"
    /\ nlast.name = "__class__"
    /\ nlast.prev = [op |-> "setattr", obj |-> nlast.obj, name |-> "__class__"]
    /\ nlast.obj = 2
    /\ nlast.ret = ClassObject

\* ------------------------------------------------ hack.decorator_with_args
\* Function objects are records of the attributes functools.wraps copies:
\* __name__, __doc__, __module__ and __dict__ (a set of entries).
WRAPPER_ASSIGNMENTS == {"__module__", "__name__", "__doc__"}
WRAPPER_UPDATES == {"__dict__"}

\* the functions to decorate
Funcs ==
    {[name |-> "a_function", doc |-> "does stuff", module |-> "app",
      dict |-> {"tag"}],
     [name |-> "another_function", doc |-> "none", module |-> "app",
      dict |-> {}]}

\* the wrappers a wannabe decorator returns: def wrapper() in its body
Wrappers ==
    {[name |-> "wrapper", doc |-> "none", module |-> "decorators", dict |-> d] :
        d \in {{}, {"own"}}}

\* functools.wraps(wrapped, assigned, updated)(wrapper): the wrapper object,
\* with the assigned attributes set and the updated ones updated
Wraps(wrapped, assigned, updated, wrapper) ==
    [name   |-> IF "__name__" \in assigned THEN wrapped.name ELSE wrapper.name,
     doc    |-> IF "__doc__" \in assigned THEN wrapped.doc ELSE wrapper.doc,
     module |-> IF "__module__" \in assigned THEN wrapped.module
                ELSE wrapper.module,
     dict   |-> IF "__dict__" \in updated THEN wrapper.dict \cup wrapped.dict
                ELSE wrapper.dict]

\* the truth value of the name tested by "if wraps:": functools.wraps, a
\* function object, which is true
WrapsIsTrue == TRUE

\* decorator_wrapper(func): d = wannabe_decorator(func, *args, **kwargs),
\* then "if wraps: d = wraps(func, function_assigned, function_updated)(d)"
decorator_wrapper(wrap, function_assigned, function_updated, func, d) ==
    IF WrapsIsTrue
    THEN Wraps(func, function_assigned, function_updated, d)
    ELSE d

\* @decorator_with_args(wrap, function_assigned, function_updated) on a
\* wannabe decorator returning the wrapper d, to be used on func
InitDec ==
    \E wrap \in BOOLEAN, fa \in SUBSET WRAPPER_ASSIGNMENTS,
       fu \in SUBSET WRAPPER_UPDATES, func \in Funcs, d \in Wrappers :
        /\ deco = [pc |-> "start", wrap |-> wrap, function_assigned |-> fa,
                   function_updated |-> fu, func |-> func, d |-> d,
                   args |-> 0, ret |-> d]
        /\ Idle("dec")

\* your_decorator = decorator_with_args(...)(wannabe_decorator)
Decorate ==
    /\ deco.pc = "start"
    /\ deco' = [deco EXCEPT !.pc = "decorator_maker"]
    /\ Frame("dec")

\* your_decorator(*args, **kwargs), which returns decorator_wrapper
Make(args) ==
    /\ deco.pc = "decorator_maker"
    /\ deco' = [deco EXCEPT !.pc = "decorator_wrapper", !.args = args]
    /\ Frame("dec")

\* decorator_wrapper(func), which returns the decorated function
Apply ==
    /\ deco.pc = "decorator_wrapper"
    /\ deco' = [deco EXCEPT !.pc = "decorated",
                   !.ret = decorator_wrapper(deco.wrap, deco.function_assigned,
                                             deco.function_updated,
                                             deco.func, deco.d)]
    /\ Frame("dec")

NextDec ==
    \/ Decorate
    \/ \E args \in Args : Make(args)
    \/ Apply

SpecDec == InitDec /\ [][NextDec]_vars

\* C17: with wrap=False the decorated function is the wrapper the wannabe
\* decorator produced, as it was, without the decorated function's __name__,
\* __doc__, __module__ and __dict__ copied onto it; with wrap=True they are
\* copied as functools.wraps copies them.
C17_WrapFalseLeavesWrapperAsIs ==
    deco.pc = "decorated" =>
        /\ ~deco.wrap => deco.ret = deco.d
        /\ deco.wrap => deco.ret = Wraps(deco.func, deco.function_assigned,
                                         deco.function_updated, deco.d)

\* ---------------------------------------------------------- structs.rename
\* the dicts with keys among Keys and values among 1..NumVals
Dicts == UNION {[D -> 1 .. NumVals] : D \in SUBSET Keys}

\* dct[key] = value
SetItem(d, key, value) ==
    [k \in DOMAIN d \cup {key} |-> IF k = key THEN value ELSE d[k]]

\* del dct[key]
DelItem(d, key) == [k \in DOMAIN d \ {key} |-> d[k]]

\* rename: dct[new_name] = dct[old_name]; del dct[old_name], where
\* dct[old_name] raises KeyError, which is passed over, when the key is
\* missing
rename(d, old_name, new_name) ==
    IF old_name \notin DOMAIN d THEN d
    ELSE DelItem(SetItem(d, new_name, d[old_name]), old_name)

InitRen ==
    \E d \in Dicts :
        /\ dct = d
        /\ ren = [called |-> FALSE, old_name |-> 0, new_name |-> 0,
                  before |-> d, ret |-> "none"]
        /\ Idle("ren")

\* rename(dct, old_name, new_name): works on dct itself and returns it
Rename(old_name, new_name) ==
    /\ dct' = rename(dct, old_name, new_name)
    /\ ren' = [called |-> TRUE, old_name |-> old_name, new_name |-> new_name,
               before |-> dct, ret |-> "dct"]
    /\ Frame("ren")

NextRen == \E old_name \in Keys, new_name \in Keys : Rename(old_name, new_name)

SpecRen == InitRen /\ [][NextRen]_vars

\* C18: after rename(dct, old_name, new_name), for any two keys: when
\* old_name was not a key, dct is as before; when it was, dct maps new_name
\* to the value old_name had and every other key keeps its value; the dict
\* object passed is the one returned.
C18_RenameMovesValue ==
    ren.called =>
        /\ ren.ret = "dct"
        /\ ren.old_name \notin DOMAIN ren.before => dct = ren.before
        /\ ren.old_name \in DOMAIN ren.before =>
               /\ ren.new_name \in DOMAIN dct
               /\ dct[ren.new_name] = ren.before[ren.old_name]
               /\ \A k \in Keys \ {ren.old_name, ren.new_name} :
                      /\ k \in DOMAIN dct <=> k \in DOMAIN ren.before
                      /\ k \in DOMAIN dct => dct[k] = ren.before[k]

\* -------------------------------------------------------- structs.flatten
MaxNodes == 5           \* objects in the nested structure given to flatten

\* Flattener.DEFAULT_FLATTEN_TYPES: list, tuple, set, the class of generator
\* objects, xrange, deque and MutableSet
DEFAULT_FLATTEN_TYPES ==
    {"list", "tuple", "set", "generator", "xrange", "deque", "MutableSet"}

\* An object is a record of its type, its value and, for a container, its
\* items in iteration order.  The items that are no containers: an int and
\* a str.
Item(type, val) == [type |-> type, val |-> val, kids |-> <<>>]
LeafItems == {Item("int", 1), Item("str", 0)}

Container(type, kids) == [type |-> type, val |-> 0, kids |-> kids]

\* the nestings of lists and tuples made of n objects in all, and the
\* sequences of objects made of m objects in all
RECURSIVE ObjectsOfSize(_), Forests(_)
ObjectsOfSize(n) ==
    (IF n = 1 THEN LeafItems ELSE {})
        \cup {Container(type, kids) : type \in {"list", "tuple"},
                                      kids \in Forests(n - 1)}

Forests(m) ==
    IF m = 0 THEN {<<>>}
    ELSE UNION {{<<o>> \o rest : o \in ObjectsOfSize(j), rest \in Forests(m - j)} :
                   j \in 1 .. m}

\* an object that can be an item of a set: no list, set, deque or
\* MutableSet, and no tuple that holds one
RECURSIVE Hashable(_)
Hashable(obj) ==
    /\ obj.type \notin {"list", "set", "deque", "MutableSet"}
    /\ obj.type = "tuple" => \A i \in 1 .. Len(obj.kids) : Hashable(obj.kids[i])

\* what a container of a type can hold: a set or MutableSet holds hashable
\* items, each once; an xrange holds consecutive ints; the others anything
CanHold(type, kids) ==
    IF type \in {"set", "MutableSet"}
    THEN /\ \A i \in 1 .. Len(kids) : Hashable(kids[i])
         /\ IsInjective(kids)
    ELSE IF type = "xrange"
    THEN /\ \A i \in 1 .. Len(kids) : kids[i].type = "int"
         /\ \A i \in 1 .. (Len(kids) - 1) : kids[i + 1].val = kids[i].val + 1
    ELSE TRUE

\* every container of the structure holds what its type can hold
RECURSIVE WellTyped(_)
WellTyped(x) ==
    /\ CanHold(x.type, x.kids)
    /\ \A i \in 1 .. Len(x.kids) : WellTyped(x.kids[i])

\* the structures got from x by making one of its containers a container
\* of a flatten type other than list and tuple
RECURSIVE Retyped(_)
Retyped(x) ==
    (IF x.type \in {"list", "tuple"}
     THEN {Container(type, x.kids) : type \in DEFAULT_FLATTEN_TYPES \ {"list", "tuple"}}
     ELSE {})
        \cup UNION {{[x EXCEPT !.kids[i] = v] : v \in Retyped(x.kids[i])} :
                       i \in 1 .. Len(x.kids)}

\* number of objects of a structure
RECURSIVE Size(_), SumSizes(_, _)
SumSizes(kids, n) == IF n = 0 THEN 0 ELSE Size(kids[n]) + SumSizes(kids, n - 1)
Size(x) == 1 + SumSizes(x.kids, Len(x.kids))

\* the object reached from x by the item indices of path
RECURSIVE ObjectAt(_, _)
ObjectAt(x, path) ==
    IF path = <<>> THEN x ELSE ObjectAt(x.kids[Head(path)], Tail(path))

\* x with the items of the container at path replaced by kids
RECURSIVE WithKids(_, _, _)
WithKids(x, path, kids) ==
    IF path = <<>> THEN [x EXCEPT !.kids = kids]
    ELSE [x EXCEPT !.kids[Head(path)] = WithKids(@, Tail(path), kids)]

\* the paths to the lists of x
RECURSIVE ListPaths(_)
ListPaths(x) ==
    (IF x.type = "list" THEN {<<>>} ELSE {})
        \cup UNION {{<<i>> \o p : p \in ListPaths(x.kids[i])} : i \in 1 .. Len(x.kids)}

\* Flattener.should_flatten testing for list only
should_flatten_ListOnly(obj) == obj.type = "list"

\* Flattener.should_flatten: isinstance(obj, self.flatten_types)
should_flatten(obj) == obj.type \in DEFAULT_FLATTEN_TYPES

\* Flattener.transform_iterable with iterable_getters = {}: the object
\* itself
transform_iterable(obj) == obj

\* The generator Flattener.__call__ returns is a stack of frames, one per
\* nested call, the innermost last.  A frame holds the iterator of its
\* "for e in iterable": the container iterated, named by its path in the
\* structure, and the number of items taken from it.
NoItem == Item("none", 0)

\* next() on the generator: the innermost frame takes the next item of its
\* iterable; an item to flatten gets a frame of its own, which runs at once,
\* and any other item is yielded; a frame whose iterable is exhausted
\* returns to the frame below it, and the last one raises StopIteration.
RECURSIVE Resume(_, _)
Resume(x, stack) ==
    IF stack = <<>> THEN [stack |-> <<>>, stop |-> TRUE, item |-> NoItem]
    ELSE LET f == stack[Len(stack)]
             below == SubSeq(stack, 1, Len(stack) - 1)
             iterable == transform_iterable(ObjectAt(x, f.path)).kids
         IN IF f.i < Len(iterable)
            THEN LET e == iterable[f.i + 1]
                     taken == Append(below, [f EXCEPT !.i = @ + 1])
                 IN IF should_flatten(e)
                    THEN Resume(x, Append(taken, [path |-> Append(f.path, f.i + 1),
                                                  i |-> 0]))
                    ELSE [stack |-> taken, stop |-> FALSE, item |-> e]
            ELSE Resume(x, below)

\* a nesting of lists and tuples, or one with one container of another
\* flatten type, whose outermost object is a container; and no generator
InitFl ==
    \E n \in 1 .. MaxNodes : \E plain \in ObjectsOfSize(n) :
        \E x \in {plain} \cup Retyped(plain) :
            /\ WellTyped(x)
            /\ x.type \in DEFAULT_FLATTEN_TYPES
            /\ fl = [x |-> x, st |-> "none", stack |-> <<>>, out |-> <<>>,
                     clean |-> FALSE, item |-> NoItem, err |-> "none"]
            /\ Idle("fl")

\* g = flatten(x): a generator whose body has not started
FlattenCall ==
    /\ fl.st = "none"
    /\ fl' = [fl EXCEPT !.st = "new", !.clean = TRUE]
    /\ Frame("fl")

\* next(g): the first one starts the body, which takes iter(iterable)
NextItem ==
    /\ fl.st \in {"new", "running", "exhausted"}
    /\ LET stack == IF fl.st = "new" THEN <<[path |-> <<>>, i |-> 0]>>
                    ELSE fl.stack
           r == Resume(fl.x, stack)
       IN fl' = IF fl.st = "exhausted" \/ r.stop
                THEN [fl EXCEPT !.st = "exhausted", !.stack = <<>>,
                                !.item = NoItem, !.err = "StopIteration"]
                ELSE [fl EXCEPT !.st = "running", !.stack = r.stack,
                                !.item = r.item, !.err = "none",
                                !.out = IF fl.clean THEN Append(@, r.item) ELSE @]
    /\ Frame("fl")

\* the caller changes the structure while the generator is alive: the
\* generator is no longer clean and what it yielded is no longer recorded
Changed(x) == [fl EXCEPT !.x = x, !.clean = FALSE, !.out = <<>>]

\* lst.append(item) on a list of the structure
AppendItem(path, item) ==
    /\ fl.st \in {"new", "running"}
    /\ Size(fl.x) < MaxNodes
    /\ fl' = Changed(WithKids(fl.x, path, Append(ObjectAt(fl.x, path).kids, item)))
    /\ Frame("fl")

\* the types of the containers of a structure
RECURSIVE ContainerTypes(_)
ContainerTypes(x) ==
    (IF should_flatten(x) THEN {x.type} ELSE {})
        \cup UNION {ContainerTypes(x.kids[i]) : i \in 1 .. Len(x.kids)}

\* lst.insert(0, item) on a list of the structure: its items move up by
\* one, and so do the paths of the frames that iterate below it.  The list
\* iterator then takes its latest item a second time, so the structures
\* taken here are those whose containers can all be iterated again: the
\* ones that hold no generator object.
InsertItem(path, item) ==
    /\ fl.st \in {"new", "running"}
    /\ Size(fl.x) < MaxNodes
    /\ "generator" \notin ContainerTypes(fl.x)
    /\ LET x == WithKids(fl.x, path, <<item>> \o ObjectAt(fl.x, path).kids)
           n == Len(path)
           Moved(f) == IF Len(f.path) > n /\ SubSeq(f.path, 1, n) = path
                       THEN [f EXCEPT !.path[n + 1] = @ + 1]
                       ELSE f
       IN fl' = [Changed(x) EXCEPT
                    !.stack = [k \in 1 .. Len(fl.stack) |-> Moved(fl.stack[k])]]
    /\ Frame("fl")

NextFl ==
    \/ FlattenCall
    \/ NextItem
    \/ \E path \in ListPaths(fl.x), item \in LeafItems : AppendItem(path, item)
    \/ \E path \in ListPaths(fl.x), item \in LeafItems : InsertItem(path, item)

SpecFl == InitFl /\ [][NextFl]_vars

\* the paths from x to the objects below it that are no containers of a
\* flatten type, passing through such containers only
RECURSIVE LeafPaths(_)
LeafPaths(x) ==
    UNION {IF x.kids[i].type \in DEFAULT_FLATTEN_TYPES
           THEN {<<i>> \o p : p \in LeafPaths(x.kids[i])}
           ELSE {<<i>>} : i \in 1 .. Len(x.kids)}

\* p comes before q from left to right, depth first
Before(p, q) ==
    \E i \in 1 .. Len(p) :
        /\ i <= Len(q)
        /\ SubSeq(p, 1, i - 1) = SubSeq(q, 1, i - 1)
        /\ p[i] < q[i]

\* C19: for any nesting of containers of the flatten types, flatten yields
\* exactly the items that are no such containers, once per occurrence and in
\* left-to-right depth-first order; it yields no container of a flatten
\* type, and empty containers contribute nothing.  The structure is the one
\* given as long as the caller leaves it alone while the generator runs.
C19_FlattenYieldsLeavesInOrder ==
    LET paths == LeafPaths(fl.x)
        Rank(p) == 1 + Cardinality({q \in paths : Before(q, p)})
    IN /\ (fl.clean /\ fl.st \in {"running", "exhausted"}) =>
              /\ Len(fl.out) <= Cardinality(paths)
              /\ \A p \in paths :
                     Rank(p) <= Len(fl.out) => fl.out[Rank(p)] = ObjectAt(fl.x, p)
       /\ (fl.clean /\ fl.st = "exhausted") => Len(fl.out) = Cardinality(paths)
       /\ fl.item.type \notin DEFAULT_FLATTEN_TYPES
       /\ \A i \in 1 .. Len(fl.out) : fl.out[i].type \notin DEFAULT_FLATTEN_TYPES

C19_Witness ==
    /\ fl.st = "exhausted"
    /\ fl.clean
    /\ Len(fl.x.kids) = 2
    /\ fl.x.kids[1].type = "set"
    /\ Len(fl.x.kids[1].kids) = 2
    /\ fl.x.kids[2] = Container("tuple", <<>>)
    /\ fl.out = <<Item("str", 0), Item("int", 1)>>

\* ------------------------------------------- the ring and the map of sset
\* the nodes met walking next from the sentinel until the sentinel is met
\* again, as __iter__ walks them
RECURSIVE NodesFrom(_, _, _)
NodesFrom(x, curr, fuel) ==
    IF curr = end \/ fuel = 0 THEN <<>>
    ELSE <<curr>> \o NodesFrom(x, x.heap[curr].next, fuel - 1)

ForwardNodes(x) == NodesFrom(x, x.heap[end].next, Cardinality(DOMAIN x.heap))

\* C20: after any add, discard and pop calls, the keys of the map and the
\* nodes reached walking forward from the sentinel are in bijection: each
\* key of the map is the key of exactly one node of the walk, which is the
\* node the map holds for it, and the key of each node of the walk is in
\* the map.
C20_MapAndRingInBijection ==
    LET nodes == ForwardNodes(s)
    IN /\ IsInjective(nodes)
       /\ \A k \in DOMAIN s.map :
              /\ Cardinality({i \in 1 .. Len(nodes) : s.heap[nodes[i]].key = k}) = 1
              /\ s.map[k] \in Range(nodes)
              /\ s.heap[s.map[k]].key = k
       /\ \A i \in 1 .. Len(nodes) : s.heap[nodes[i]].key \in DOMAIN s.map
       /\ Len(nodes) = Cardinality(DOMAIN s.map)

C20_Witness ==
    /\ last.op = "add"
    /\ prior.op = "pop"
    /\ prior.err = "none"
    /\ prior.key = last.key
    /\ Len(ForwardNodes(s)) = 3
    /\ s.map[last.key] = s.heap[end].prev
    /\ s.map[last.key] < s.heap[end].next

\* the sentinel and the nodes of the forward walk
Ring(x) == {end} \cup Range(ForwardNodes(x))

\* C21: after any add, discard and pop calls the linked list is a circular
\* doubly linked ring: for every node n of it, the sentinel included,
\* n.next.prev is n and n.prev.next is n, and the forward walk from the
\* sentinel is back at the sentinel after exactly len() nodes; in the empty
\* set the sentinel is its own prev and next.
C21_RingIsWellFormed ==
    LET nodes == ForwardNodes(s)
        n == Len(nodes)
    IN /\ \A c \in Ring(s) :
              /\ s.heap[c].next \in Ring(s)
              /\ s.heap[c].prev \in Ring(s)
              /\ s.heap[s.heap[c].next].prev = c
              /\ s.heap[s.heap[c].prev].next = c
       /\ n = SLen(s)
       /\ end \notin Range(nodes)
       /\ (IF n = 0 THEN s.heap[end].next ELSE s.heap[nodes[n]].next) = end
       /\ (IF n = 0 THEN s.heap[end].prev ELSE s.heap[nodes[1]].prev) = end
       /\ SLen(s) = 0 => s.heap[end] = [key |-> None, prev |-> end, next |-> end]

C21_Witness ==
    /\ last.op = "discard"
    /\ prior.op = "add"
    /\ SContains(s, prior.key)
    /\ Len(ForwardNodes(s)) = 2
    /\ s.heap[end].next > s.heap[end].prev
    /\ s.heap[s.heap[end].next].next = s.heap[end].prev

\* ------------------------------------- removing all the elements of a sset
\* MutableSet.clear, which sset inherits and __del__ calls: pop() until it
\* raises KeyError
RECURSIVE SClear(_)
SClear(x) ==
    LET r == SPop(x, TRUE)
    IN IF r.err = "KeyError" THEN x ELSE SClear(r.s)

\* a set built by the constructor, and no generator
InitDel ==
    \E iterable \in SeqsUpTo(MaxInit) :
        /\ s = SInit(iterable)
        /\ t = EmptySset
        /\ last = Call("init", None, TRUE, iterable, {}, None, TRUE, "none")
        /\ prior = [op |-> "none", key |-> None, err |-> "none"]
        /\ hist = [k \in Keys |-> IF k \in Range(iterable) THEN "add" ELSE "none"]
        /\ added = FirstOccurrences(iterable)
        /\ drain = NoDrain
        /\ gen = NoGen
        /\ done = NoGen
        /\ ExtIdle

\* the keys of x are marked as removed
Removed(h, x) == [k \in Keys |-> IF SContains(x, k) THEN "remove" ELSE h[k]]

\* s.discard(key), while a generator may be suspended on a node: the nodes
\* its frame leads to stay alive
DelDiscard(key) ==
    /\ s' = Collect(SDiscard(s, key).s, Held(gen))
    /\ last' = Call("discard", key, FALSE, <<>>, {}, None, TRUE, "none")
    /\ prior' = Prior(last)
    /\ hist' = IF SContains(s, key) THEN [hist EXCEPT ![key] = "remove"] ELSE hist
    /\ added' = Without(added, key)
    /\ gen' = IF s' = s THEN gen ELSE Dirty(gen)
    /\ UNCHANGED <<t, drain, done, ext>>

\* s.pop(last=lastFlag)
DelPop(lastFlag) ==
    LET r == SPop(s, lastFlag)
    IN /\ s' = Collect(r.s, Held(gen))
       /\ last' = Call("pop", r.ret, lastFlag, <<>>, {}, r.ret, TRUE, r.err)
       /\ prior' = Prior(last)
       /\ hist' = IF r.err = "none" THEN [hist EXCEPT ![r.ret] = "remove"]
                  ELSE hist
       /\ added' = IF r.err = "none" THEN Without(added, r.ret) ELSE added
       /\ gen' = IF s' = s THEN gen ELSE Dirty(gen)
       /\ UNCHANGED <<t, drain, done, ext>>

\* s.clear()
Clear ==
    /\ s' = Collect(SClear(s), Held(gen))
    /\ last' = Call("clear", None, FALSE, <<>>, {}, None, TRUE, "none")
    /\ prior' = Prior(last)
    /\ hist' = Removed(hist, s)
    /\ added' = <<>>
    /\ gen' = IF s' = s THEN gen ELSE Dirty(gen)
    /\ UNCHANGED <<t, drain, done, ext>>

NextDel ==
    \/ \E key \in Keys : DelDiscard(key)
    \/ \E lastFlag \in BOOLEAN : DelPop(lastFlag)
    \/ Clear
    \/ \E rev \in BOOLEAN : IterOp(rev)
    \/ NextOp

SpecDel == InitDel /\ [][NextDel]_vars

\* the nodes n refers to
Refs(x, n) == {x.heap[n].prev, x.heap[n].next}

\* following prev and next from n leads back to n
OnCycle(x, n) == n \in Reachable(x.heap, Refs(x, n))

\* C22: once all the elements of a sset have been removed, by discard, pop
\* or clear, no reference cycle between its nodes remains: following prev
\* and next from the sentinel or from a removed node never leads back to the
\* node one started from.
C22_NoCycleOnceEmptied ==
    (SLen(s) = 0 /\ \E k \in Keys : hist[k] = "remove") =>
        \A n \in {end} \cup Stale(s) : ~OnCycle(s, n)

\* following prev and next from a removed node never leads back to it
C22_RemovedNodesOffCycles ==
    \A n \in Stale(s) : ~OnCycle(s, n)

\* emptied by clear() while a suspended generator keeps two removed nodes
\* alive
C22_Witness ==
    /\ SLen(s) = 0
    /\ last.op = "clear"
    /\ gen.st = "yielded"
    /\ Cardinality(Stale(s)) = 2

====
